---- MODULE Spec2Model ----
(***************************************************************************)
(* Medication Tracker: the recurrence scheduling and status state machine  *)
(* of custom_components/medication_tracker/models.py (MedicationEntry),    *)
(* driven the way coordinator.py drives it.                                *)
(*                                                                         *)
(* Time.  An instant is an integer number of ticks of local wall-clock     *)
(* time since 00:00 of January 1st of EpochYear; there are TicksPerHour    *)
(* ticks in an hour.  Every datetime the code handles is zone-aware and    *)
(* dt_util.as_local only changes the zone an instant is shown in, so       *)
(* comparisons and differences are those of the integers, and .date() and  *)
(* .time() are the quotient and the remainder by the ticks of a day (a     *)
(* fixed-offset local zone: no daylight-saving transition is modelled).    *)
(***************************************************************************)
EXTENDS Integers, Sequences, FiniteSets, TLC

VARIABLES
    id,              \* MedicationEntry.id
    device_id,       \* MedicationEntry.device_id
    data,            \* MedicationEntry.data: the rule (MedicationData)
    dose_history,    \* MedicationEntry.dose_history: sequence of DoseRecord
    current_status,  \* MedicationEntry._current_status
    next_due,        \* MedicationEntry._next_due: an instant or None
    now,             \* the wall clock the callers read (dt_util.now())
    last_op,         \* history variable: the last call made on the entry
    calc,            \* history variable: the call that last assigned _next_due ("none" after a reset)
    raised,          \* the exception the last call ended with ("none" when it returned)
    event_callback,  \* MedicationEntry._event_callback is set (TRUE) or None (FALSE)
    fired            \* the state-change events the last call handed to the callback

vars == <<id, device_id, data, dose_history, current_status, next_due, now, last_op, calc,
          raised, event_callback, fired>>

----------------------------------------------------------------------------
(* Bounds of the model and constants of the program *)

TicksPerHour == 2
MaxDay == 1
MaxWeek == 2
MaxHistory == 2
MaxCalendarDay == 1460
EpochYear == 2025

None == -1

OVERDUE_HOURS == 2
SKIP_WINDOW_HOURS == 1
DEFAULT_HOUR == 9
WEEK_DAYS == 7
MONTH_INTERVAL_DAYS == 30

FREQUENCY_DAILY == "daily"
FREQUENCY_WEEKLY == "weekly"
FREQUENCY_MONTHLY == "monthly"
FREQUENCY_AS_NEEDED == "as_needed"

STATE_DUE == "due"
STATE_TAKEN == "taken"
STATE_OVERDUE == "overdue"
STATE_NOT_DUE == "not_due"
STATE_SKIPPED == "skipped"

States == {STATE_DUE, STATE_TAKEN, STATE_OVERDUE, STATE_NOT_DUE, STATE_SKIPPED}

----------------------------------------------------------------------------
(* Dates and times *)

TicksPerDay == 24 * TicksPerHour

\* datetime.date() of a local instant, as a day number
LocalDate(t) == t \div TicksPerDay

\* datetime.time() of a local instant, as ticks since midnight
LocalTime(t) == t % TicksPerDay

\* timedelta(hours = h)
Hours(h) == h * TicksPerHour

\* timedelta(days = n)
Days(n) == n * TicksPerDay

\* A time-of-day string "HH:MM": hour and the tick within the hour
TimeStr(h, sub) == [hour |-> h, sub |-> sub]

\* a time string that map(int, time_str.split(":")) or time().replace(hour, minute)
\* raises ValueError on, such as "9am" or "25:00"
MalformedTime == [hour |-> -1, sub |-> -1]

\* whether the parse of a time string succeeds
parses(time_str) ==
    /\ time_str.hour \in 0..23
    /\ time_str.sub \in 0..(TicksPerHour - 1)

\* map(int, time_str.split(":")) then time().replace(hour, minute): ticks since midnight
ParseTime(time_str) == time_str.hour * TicksPerHour + time_str.sub

\* dt_util.as_local(datetime.combine(date, time))
Combine(date, tod) == date * TicksPerDay + tod

\* dt_util.start_of_local_day(date)
StartOfLocalDay(date) == date * TicksPerDay

\* start_of_local_day(date) + 1 day - 1 microsecond: the last instant of the day
EndOfLocalDay(date) == (date + 1) * TicksPerDay - 1

IsLeap(y) == (y % 4 = 0 /\ y % 100 # 0) \/ y % 400 = 0

DaysInMonth(y, m) ==
    IF m = 2 THEN (IF IsLeap(y) THEN 29 ELSE 28)
    ELSE IF m \in {4, 6, 9, 11} THEN 30 ELSE 31

RECURSIVE DateFrom(_, _, _)
DateFrom(y, m, n) ==
    IF n < DaysInMonth(y, m)
    THEN [year |-> y, month |-> m, day |-> n + 1]
    ELSE DateFrom(IF m = 12 THEN y + 1 ELSE y, IF m = 12 THEN 1 ELSE m + 1,
                  n - DaysInMonth(y, m))

\* the calendar date (year, month, day) of a day number
DateOf(n) == DateFrom(EpochYear, 1, n)

RECURSIVE DaysBefore(_, _)
DaysBefore(y, m) ==
    IF y = EpochYear /\ m = 1 THEN 0
    ELSE IF m = 1 THEN DaysBefore(y - 1, 12) + DaysInMonth(y - 1, 12)
    ELSE DaysBefore(y, m - 1) + DaysInMonth(y, m - 1)

\* the day number of a calendar date
DayNumber(y, m, d) == DaysBefore(y, m) + d - 1

Min(S) == CHOOSE x \in S : \A y \in S : x <= y

Abs(x) == IF x < 0 THEN 0 - x ELSE x

----------------------------------------------------------------------------
(* Occurrence Ledger: DoseRecord and the derived properties *)

\* DoseRecord(timestamp, taken): notes keeps its default, the callers pass none
DoseRecord(timestamp, taken) == [timestamp |-> timestamp, taken |-> taken, notes |-> ""]

\* MedicationEntry.last_taken: the most recently appended record with taken = True
last_taken(h) ==
    LET idx == {i \in 1..Len(h) : h[i].taken}
    IN IF idx = {} THEN None
       ELSE h[CHOOSE i \in idx : \A j \in idx : j <= i].timestamp

----------------------------------------------------------------------------
(* Schedule Engine *)

\* The value of a computation that may raise: ok = FALSE stands for the exception
Ok(v) == [ok |-> TRUE, value |-> v]
Raise == [ok |-> FALSE, value |-> None]

\* "if not self.data.times: self.data.times = ["09:00"]"
default_times(times) == IF times = <<>> THEN <<TimeStr(DEFAULT_HOUR, 0)>> ELSE times

\* the instants the rule's time strings name on one date
SlotsOn(times, date) == {Combine(date, ParseTime(times[i])) : i \in 1..Len(times)}

\* _was_dose_handled_for_time counting taken doses only (as _was_dose_taken_for_time does)
was_dose_taken_for_time(h, scheduled_time) ==
    \E i \in 1..Len(h) : h[i].taken /\ LocalDate(h[i].timestamp) = LocalDate(scheduled_time)

\* MedicationEntry._was_dose_handled_for_time: some record is dated on the slot's day
was_dose_handled_for_time(h, scheduled_time) ==
    \E i \in 1..Len(h) : LocalDate(h[i].timestamp) = LocalDate(scheduled_time)

\* _calculate_daily_next_due taking a slot at the reference instant itself as still to come
calculate_daily_next_due_at_or_after(times, h, current_time) ==
    LET today == LocalDate(current_time)
        future == {due \in SlotsOn(times, today) : due >= current_time}
        unhandled == {due \in SlotsOn(times, today) : ~was_dose_handled_for_time(h, due)}
    IN IF future # {} THEN Ok(Min(future))
       ELSE IF unhandled # {} THEN Ok(Min(unhandled))
       ELSE IF times = <<>> THEN Raise
       ELSE Ok(Combine(today + 1, ParseTime(times[1])))

\* MedicationEntry._calculate_daily_next_due(current_time); raises IndexError at
\* self.data.times[0] when the list is empty and nothing is left today
calculate_daily_next_due(times, h, current_time) ==
    LET today == LocalDate(current_time)
        future == {due \in SlotsOn(times, today) : due > current_time}
        unhandled == {due \in SlotsOn(times, today) : ~was_dose_handled_for_time(h, due)}
    IN IF future # {} THEN Ok(Min(future))
       ELSE IF unhandled # {} THEN Ok(Min(unhandled))
       ELSE IF times = <<>> THEN Raise
       ELSE Ok(Combine(today + 1, ParseTime(times[1])))

\* the date the "first dose" branch of the weekly calculation starts from
weekly_start_date(d, current_time) ==
    IF d.start_date.kind = "datetime" THEN LocalDate(d.start_date.value)
    ELSE IF d.start_date.kind = "date" THEN d.start_date.value
    ELSE LocalDate(current_time)

\* _calculate_weekly_next_due counting the 7 days of a skip from the day the skip
\* was recorded instead of the day of the reference instant
calculate_weekly_next_due_from_skip_day(d, h, current_time) ==
    LET tod == ParseTime(d.times[1])
        current_date == LocalDate(current_time)
        scheduled_time_today == Combine(current_date, tod)
        lt == last_taken(h)
    IN IF /\ Abs(current_time - scheduled_time_today) < Hours(SKIP_WINDOW_HOURS)
          /\ h # <<>>
          /\ ~h[Len(h)].taken
       THEN Combine(LocalDate(h[Len(h)].timestamp) + WEEK_DAYS, tod)
       ELSE IF lt # None
       THEN Combine(LocalDate(lt) + WEEK_DAYS, tod)
       ELSE LET start_date == weekly_start_date(d, current_time)
                due_time == Combine(start_date, tod)
            IN IF due_time <= current_time
               THEN Combine(start_date + WEEK_DAYS, tod)
               ELSE due_time

\* _calculate_weekly_next_due keeping the time of day the last dose was taken at
calculate_weekly_next_due_taken_time(d, h, current_time) ==
    LET tod == ParseTime(d.times[1])
        current_date == LocalDate(current_time)
        scheduled_time_today == Combine(current_date, tod)
        lt == last_taken(h)
    IN IF /\ Abs(current_time - scheduled_time_today) < Hours(SKIP_WINDOW_HOURS)
          /\ h # <<>>
          /\ ~h[Len(h)].taken
       THEN Combine(current_date + WEEK_DAYS, tod)
       ELSE IF lt # None
       THEN lt + Days(WEEK_DAYS)
       ELSE LET start_date == weekly_start_date(d, current_time)
                due_time == Combine(start_date, tod)
            IN IF due_time <= current_time
               THEN Combine(start_date + WEEK_DAYS, tod)
               ELSE due_time

\* MedicationEntry._calculate_weekly_next_due(current_time), with times already defaulted
calculate_weekly_next_due(d, h, current_time) ==
    LET tod == ParseTime(d.times[1])
        current_date == LocalDate(current_time)
        scheduled_time_today == Combine(current_date, tod)
        lt == last_taken(h)
    IN IF /\ Abs(current_time - scheduled_time_today) < Hours(SKIP_WINDOW_HOURS)
          /\ h # <<>>
          /\ ~h[Len(h)].taken
       THEN Combine(current_date + WEEK_DAYS, tod)
       ELSE IF lt # None
       THEN Combine(LocalDate(lt) + WEEK_DAYS, tod)
       ELSE LET start_date == weekly_start_date(d, current_time)
                due_time == Combine(start_date, tod)
            IN IF due_time <= current_time
               THEN Combine(start_date + WEEK_DAYS, tod)
               ELSE due_time

\* date.replace(month = month + 1) (year + 1, month = 1 in December): the same
\* day of the next month, or ValueError (ok = FALSE) when that month has no such day
replace_next_month(date) ==
    LET c == DateOf(date)
        y == IF c.month = 12 THEN c.year + 1 ELSE c.year
        m == IF c.month = 12 THEN 1 ELSE c.month + 1
    IN IF c.day <= DaysInMonth(y, m) THEN Ok(DayNumber(y, m, c.day)) ELSE Raise

\* date.replace(month = month + 1, day = 1)
first_of_next_month(date) ==
    LET c == DateOf(date)
        y == IF c.month = 12 THEN c.year + 1 ELSE c.year
        m == IF c.month = 12 THEN 1 ELSE c.month + 1
    IN DayNumber(y, m, 1)

\* _calculate_monthly_next_due clamping an overflowing day to the last day of the
\* next month instead of moving to day 1
calculate_monthly_next_due_clamped(h, current_time) ==
    LET lt == last_taken(h)
        last_of_next_month(date) ==
            LET c == DateOf(date)
                y == IF c.month = 12 THEN c.year + 1 ELSE c.year
                m == IF c.month = 12 THEN 1 ELSE c.month + 1
            IN DayNumber(y, m, DaysInMonth(y, m))
    IN IF h # <<>> /\ ~h[Len(h)].taken /\ lt # None
       THEN LET r == replace_next_month(LocalDate(current_time))
            IN IF r.ok THEN Combine(r.value, LocalTime(lt))
               ELSE Combine(last_of_next_month(LocalDate(current_time)), Hours(DEFAULT_HOUR))
       ELSE IF lt # None
       THEN LET r == replace_next_month(LocalDate(lt))
            IN IF r.ok THEN Combine(r.value, LocalTime(lt))
               ELSE Combine(last_of_next_month(LocalDate(lt)), LocalTime(lt))
       ELSE current_time

\* _calculate_monthly_next_due counting the month of a skip from the last taken
\* dose instead of the reference instant
calculate_monthly_next_due_skip_from_taken(h, current_time) ==
    LET lt == last_taken(h)
    IN IF h # <<>> /\ ~h[Len(h)].taken /\ lt # None
       THEN LET r == replace_next_month(LocalDate(lt))
            IN IF r.ok THEN Combine(r.value, LocalTime(lt))
               ELSE Combine(first_of_next_month(LocalDate(lt)), Hours(DEFAULT_HOUR))
       ELSE IF lt # None
       THEN LET r == replace_next_month(LocalDate(lt))
            IN IF r.ok THEN Combine(r.value, LocalTime(lt))
               ELSE Combine(first_of_next_month(LocalDate(lt)), LocalTime(lt))
       ELSE current_time

\* _calculate_monthly_next_due anchoring the first dose at 09:00 of the reference date
calculate_monthly_next_due_first_at_nine(h, current_time) ==
    LET lt == last_taken(h)
    IN IF h # <<>> /\ ~h[Len(h)].taken /\ lt # None
       THEN LET r == replace_next_month(LocalDate(current_time))
            IN IF r.ok THEN Combine(r.value, LocalTime(lt))
               ELSE Combine(first_of_next_month(LocalDate(current_time)), Hours(DEFAULT_HOUR))
       ELSE IF lt # None
       THEN LET r == replace_next_month(LocalDate(lt))
            IN IF r.ok THEN Combine(r.value, LocalTime(lt))
               ELSE Combine(first_of_next_month(LocalDate(lt)), LocalTime(lt))
       ELSE Combine(LocalDate(current_time), Hours(DEFAULT_HOUR))

\* MedicationEntry._calculate_monthly_next_due(current_time)
calculate_monthly_next_due(h, current_time) ==
    LET lt == last_taken(h)
    IN IF h # <<>> /\ ~h[Len(h)].taken /\ lt # None
       THEN LET r == replace_next_month(LocalDate(current_time))
            IN IF r.ok THEN Combine(r.value, LocalTime(lt))
               ELSE Combine(first_of_next_month(LocalDate(current_time)), Hours(DEFAULT_HOUR))
       ELSE IF lt # None
       THEN LET r == replace_next_month(LocalDate(lt))
            IN IF r.ok THEN Combine(r.value, LocalTime(lt))
               ELSE Combine(first_of_next_month(LocalDate(lt)), LocalTime(lt))
       ELSE current_time

\* The effect of a next-due calculation on the entry: the cached next-due, the
\* rule's time list (the weekly calculation and _calculate_next_due default it
\* in place) and whether the calculation raised.
Effect(nd, times, exc) == [next_due |-> nd, times |-> times, raised |-> exc]

\* _update_next_due falling through to the daily calculation for any other frequency
update_next_due_daily_fallback(d, h, nd, taken_time) ==
    IF d.frequency = FREQUENCY_WEEKLY
    THEN LET dd == [d EXCEPT !.times = default_times(d.times)]
         IN Effect(calculate_weekly_next_due(dd, h, taken_time), dd.times, "none")
    ELSE IF d.frequency = FREQUENCY_MONTHLY
    THEN Effect(calculate_monthly_next_due(h, taken_time), d.times, "none")
    ELSE LET r == calculate_daily_next_due(d.times, h, taken_time)
         IN IF r.ok THEN Effect(r.value, d.times, "none")
            ELSE Effect(nd, d.times, "IndexError")

\* the daily calculation parses every time string of the list
daily_parses(times) == \A i \in 1..Len(times) : parses(times[i])

\* MedicationEntry._update_next_due(taken_time)
update_next_due(d, h, nd, taken_time) ==
    IF d.frequency = FREQUENCY_DAILY
    THEN IF ~daily_parses(d.times) THEN Effect(nd, d.times, "ValueError")
         ELSE LET r == calculate_daily_next_due(d.times, h, taken_time)
              IN IF r.ok THEN Effect(r.value, d.times, "none")
                 ELSE Effect(nd, d.times, "IndexError")
    ELSE IF d.frequency = FREQUENCY_WEEKLY
    THEN LET dd == [d EXCEPT !.times = default_times(d.times)]
         IN IF ~parses(dd.times[1]) THEN Effect(nd, dd.times, "ValueError")
            ELSE Effect(calculate_weekly_next_due(dd, h, taken_time), dd.times, "none")
    ELSE IF d.frequency = FREQUENCY_MONTHLY
    THEN Effect(calculate_monthly_next_due(h, taken_time), d.times, "none")
    ELSE Effect(nd, d.times, "none")

\* MedicationEntry._calculate_next_due(current_time)
calculate_next_due(d, h, nd, current_time) ==
    IF d.frequency = FREQUENCY_AS_NEEDED THEN Effect(nd, d.times, "none")
    ELSE update_next_due([d EXCEPT !.times = default_times(d.times)], h, nd, current_time)

\* MedicationEntry._get_dose_interval
get_dose_interval(d) ==
    IF d.frequency = FREQUENCY_DAILY THEN Days(1)
    ELSE IF d.frequency = FREQUENCY_WEEKLY THEN Days(WEEK_DAYS)
    ELSE IF d.frequency = FREQUENCY_MONTHLY THEN Days(MONTH_INTERVAL_DAYS)
    ELSE Days(1)

----------------------------------------------------------------------------
(* Status Resolver *)

NoBound == [kind |-> "none", value |-> None]
DateBound(date) == [kind |-> "date", value |-> date]
DatetimeBound(t) == [kind |-> "datetime", value |-> t]

\* the start check treating the first active day (the start instant) as not yet active
before_start_exclusive(d, current_time) ==
    IF d.start_date.kind = "datetime" THEN current_time <= d.start_date.value
    ELSE IF d.start_date.kind = "date" THEN LocalDate(current_time) <= d.start_date.value
    ELSE FALSE

\* update_status, lines 217-228: current_time is before the rule's start
before_start(d, current_time) ==
    IF d.start_date.kind = "datetime" THEN current_time < d.start_date.value
    ELSE IF d.start_date.kind = "date" THEN LocalDate(current_time) < d.start_date.value
    ELSE FALSE

\* update_status, lines 230-241: current_time is after the rule's end
after_end(d, current_time) ==
    IF d.end_date.kind = "datetime" THEN current_time > d.end_date.value
    ELSE IF d.end_date.kind = "date" THEN LocalDate(current_time) > d.end_date.value
    ELSE FALSE

\* MedicationEntry._check_recently_skipped, the daily scan: the index of the
\* record the reversed scan stops at (0 when it finds none dated today)
RECURSIVE most_recent_today(_, _, _)
most_recent_today(h, i, today) ==
    IF i = 0 THEN 0
    ELSE IF LocalDate(h[i].timestamp) = today THEN i
    ELSE IF LocalDate(h[i].timestamp) < today THEN 0
    ELSE most_recent_today(h, i - 1, today)

\* _check_recently_skipped looking at the last record only, whatever its day and
\* the next-due
check_recently_skipped_last_record(d, h, nd, current_time) ==
    h # <<>> /\ ~h[Len(h)].taken

\* MedicationEntry._check_recently_skipped(current_time)
check_recently_skipped(d, h, nd, current_time) ==
    IF h = <<>> THEN FALSE
    ELSE IF d.frequency = FREQUENCY_DAILY
    THEN LET i == most_recent_today(h, Len(h), LocalDate(current_time))
         IN i # 0 /\ ~h[i].taken
    ELSE /\ ~h[Len(h)].taken
         /\ nd # None
         /\ current_time < nd

\* _was_taken_today comparing elapsed time with a day instead of calendar dates
was_taken_within_a_day(current_time, lt) == current_time - lt < Days(1)

\* MedicationEntry._was_taken_today(current_time, last_taken)
was_taken_today(current_time, lt) == LocalDate(current_time) = LocalDate(lt)

\* the due check giving OVERDUE on the day of the next-due only
due_status_same_day(nd, current_time) ==
    IF current_time > nd + Hours(OVERDUE_HOURS) /\ LocalDate(current_time) = LocalDate(nd)
    THEN STATE_OVERDUE
    ELSE STATE_DUE

\* the due check escalating to OVERDUE already at next-due + 2 hours
due_status_overdue_at_limit(nd, current_time) ==
    IF current_time >= nd + Hours(OVERDUE_HOURS) THEN STATE_OVERDUE ELSE STATE_DUE

\* update_status, lines 274-279: the status once current_time has reached next-due
due_status(nd, current_time) ==
    IF current_time > nd + Hours(OVERDUE_HOURS) THEN STATE_OVERDUE ELSE STATE_DUE

\* the same with a dose exactly one interval old still counting as recent
not_yet_due_status_at_most_interval(d, h, current_time) ==
    LET lt == last_taken(h)
    IN IF lt # None /\ d.frequency = FREQUENCY_DAILY /\ was_taken_today(current_time, lt)
       THEN STATE_TAKEN
       ELSE IF /\ lt # None
               /\ d.frequency # FREQUENCY_DAILY
               /\ current_time - lt <= get_dose_interval(d)
       THEN STATE_TAKEN
       ELSE STATE_NOT_DUE

\* update_status, lines 283-303: the status while current_time is before next-due
not_yet_due_status(d, h, current_time) ==
    LET lt == last_taken(h)
    IN IF lt # None /\ d.frequency = FREQUENCY_DAILY /\ was_taken_today(current_time, lt)
       THEN STATE_TAKEN
       ELSE IF /\ lt # None
               /\ d.frequency # FREQUENCY_DAILY
               /\ current_time - lt < get_dose_interval(d)
       THEN STATE_TAKEN
       ELSE STATE_NOT_DUE

\* _fire_state_change_event calling the callback on every evaluation
fire_state_change_event_always(callback, old_status, new_status) ==
    IF callback
    THEN <<[old_status |-> old_status, new_status |-> new_status]>>
    ELSE <<>>

\* MedicationEntry._fire_state_change_event(old_status, new_status): the events
\* handed to the callback
fire_state_change_event(callback, old_status, new_status) ==
    IF callback /\ old_status # new_status
    THEN <<[old_status |-> old_status, new_status |-> new_status]>>
    ELSE <<>>

\* The entry after a call: status, cached next-due and the rule's time list
Outcome(status, nd, times) == [status |-> status, next_due |-> nd, times |-> times]

\* update_status with the due check made before the skip check
update_status_due_first(d, h, nd, current_time) ==
    IF before_start(d, current_time) \/ after_end(d, current_time)
    THEN Outcome(STATE_NOT_DUE, nd, d.times)
    ELSE IF d.frequency = FREQUENCY_AS_NEEDED
    THEN Outcome(STATE_NOT_DUE, nd, d.times)
    ELSE LET e == IF nd = None THEN calculate_next_due(d, h, nd, current_time)
                  ELSE Effect(nd, d.times, "none")
         IN IF e.next_due = None THEN Outcome(STATE_NOT_DUE, e.next_due, e.times)
            ELSE IF current_time >= e.next_due
            THEN Outcome(due_status(e.next_due, current_time), e.next_due, e.times)
            ELSE IF check_recently_skipped(d, h, e.next_due, current_time)
            THEN Outcome(STATE_SKIPPED, e.next_due, e.times)
            ELSE Outcome(not_yet_due_status(d, h, current_time), e.next_due, e.times)

\* update_status calculating a missing next-due before the checks of the active
\* range and of the as-needed frequency
update_status_calculating_first(d, h, nd, current_time) ==
    LET e == IF nd = None /\ d.frequency # FREQUENCY_AS_NEEDED
             THEN calculate_next_due(d, h, nd, current_time)
             ELSE Effect(nd, d.times, "none")
    IN IF before_start(d, current_time) \/ after_end(d, current_time)
       THEN Outcome(STATE_NOT_DUE, e.next_due, e.times)
       ELSE IF d.frequency = FREQUENCY_AS_NEEDED
       THEN Outcome(STATE_NOT_DUE, e.next_due, e.times)
       ELSE IF e.next_due = None THEN Outcome(STATE_NOT_DUE, e.next_due, e.times)
       ELSE IF check_recently_skipped(d, h, e.next_due, current_time)
       THEN Outcome(STATE_SKIPPED, e.next_due, e.times)
       ELSE IF current_time >= e.next_due
       THEN Outcome(due_status(e.next_due, current_time), e.next_due, e.times)
       ELSE Outcome(not_yet_due_status(d, h, current_time), e.next_due, e.times)

\* MedicationEntry.update_status(current_time) on an entry whose rule is d,
\* history h and cached next-due nd
update_status_on(d, h, nd, current_time) ==
    IF before_start(d, current_time) \/ after_end(d, current_time)
    THEN Outcome(STATE_NOT_DUE, nd, d.times)
    ELSE IF d.frequency = FREQUENCY_AS_NEEDED
    THEN Outcome(STATE_NOT_DUE, nd, d.times)
    ELSE LET e == IF nd = None THEN calculate_next_due(d, h, nd, current_time)
                  ELSE Effect(nd, d.times, "none")
         IN IF e.next_due = None THEN Outcome(STATE_NOT_DUE, e.next_due, e.times)
            ELSE IF check_recently_skipped(d, h, e.next_due, current_time)
            THEN Outcome(STATE_SKIPPED, e.next_due, e.times)
            ELSE IF current_time >= e.next_due
            THEN Outcome(due_status(e.next_due, current_time), e.next_due, e.times)
            ELSE Outcome(not_yet_due_status(d, h, current_time), e.next_due, e.times)

----------------------------------------------------------------------------
(* The statistics of the history *)

\* sum(1 for record in dose_history if record.taken = taken)
RECURSIVE count_records(_, _)
count_records(h, taken) ==
    IF h = <<>> THEN 0
    ELSE (IF Head(h).taken = taken THEN 1 ELSE 0) + count_records(Tail(h), taken)

\* MedicationEntry.missed_doses
missed_doses(h) == count_records(h, FALSE)

\* a float that is the quotient of two integers, kept exact
Quotient(num, den) == [num |-> num, den |-> den]

\* a <= b for two such floats (denominators positive)
Leq(a, b) == a.num * b.den <= b.num * a.den

\* adherence_rate dividing the taken doses by the skipped ones
adherence_rate_over_skipped(h) ==
    IF h = <<>> \/ count_records(h, FALSE) = 0 THEN Quotient(0, 1)
    ELSE Quotient(count_records(h, TRUE) * 100, count_records(h, FALSE))

\* adherence_rate as the share of the skipped doses
adherence_rate_of_skipped(h) ==
    IF h = <<>> THEN Quotient(0, 1)
    ELSE Quotient(count_records(h, FALSE) * 100, Len(h))

\* MedicationEntry.adherence_rate: (taken_count / len(dose_history)) * 100
adherence_rate(h) ==
    IF h = <<>> THEN Quotient(0, 1)
    ELSE Quotient(count_records(h, TRUE) * 100, Len(h))

----------------------------------------------------------------------------
(* Serialisation: to_dict and from_dict *)

\* datetime.isoformat(): "YYYY-MM-DDTHH:MM..." (has_T), the calendar date and the
\* time of day written out
datetime_isoformat(t) == [has_T |-> TRUE, date |-> DateOf(LocalDate(t)), time |-> LocalTime(t)]

\* date.isoformat(): "YYYY-MM-DD"
date_isoformat(date) == [has_T |-> FALSE, date |-> DateOf(date), time |-> 0]

\* datetime.fromisoformat(text), as an instant (as_local keeps the instant)
datetime_fromisoformat(text) ==
    Combine(DayNumber(text.date.year, text.date.month, text.date.day), text.time)

\* datetime.fromisoformat(text).date()
date_fromisoformat(text) == DayNumber(text.date.year, text.date.month, text.date.day)

\* the null of a stored record
null == [has_T |-> FALSE, null |-> TRUE]

\* "x.isoformat() if x else None" for a bound of the rule
bound_to_dict(bound) ==
    IF bound.kind = "none" THEN null
    ELSE IF bound.kind = "datetime" THEN datetime_isoformat(bound.value)
    ELSE date_isoformat(bound.value)

\* from_dict telling a date from a datetime by a time of day of midnight
bound_from_dict_by_midnight(text) ==
    IF text = null THEN NoBound
    ELSE IF text.time # 0 THEN DatetimeBound(datetime_fromisoformat(text))
    ELSE DateBound(date_fromisoformat(text))

\* MedicationData.from_dict, one bound: a text with "T" is a datetime, any other a date
bound_from_dict(text) ==
    IF text = null THEN NoBound
    ELSE IF text.has_T THEN DatetimeBound(datetime_fromisoformat(text))
    ELSE DateBound(date_fromisoformat(text))

\* MedicationData.to_dict
MedicationData_to_dict(d) ==
    [frequency |-> d.frequency,
     times |-> d.times,
     start_date |-> bound_to_dict(d.start_date),
     end_date |-> bound_to_dict(d.end_date)]

\* MedicationData.from_dict
MedicationData_from_dict(r) ==
    [frequency |-> r.frequency,
     times |-> r.times,
     start_date |-> bound_from_dict(r.start_date),
     end_date |-> bound_from_dict(r.end_date)]

\* DoseRecord.to_dict
DoseRecord_to_dict(record) ==
    [timestamp |-> datetime_isoformat(record.timestamp),
     taken |-> record.taken,
     notes |-> record.notes]

\* DoseRecord.from_dict
DoseRecord_from_dict(r) ==
    [timestamp |-> datetime_fromisoformat(r.timestamp),
     taken |-> r.taken,
     notes |-> r.notes]

\* A MedicationEntry with its fields
MedicationEntry(i, dev, d, h, status, nd) ==
    [id |-> i, device_id |-> dev, data |-> d, dose_history |-> h,
     current_status |-> status, next_due |-> nd]

\* to_dict storing the calculated values as well
to_dict_with_calculated_values(entry) ==
    [id |-> entry.id,
     device_id |-> entry.device_id,
     data |-> MedicationData_to_dict(entry.data),
     dose_history |-> [i \in 1..Len(entry.dose_history) |->
                          DoseRecord_to_dict(entry.dose_history[i])],
     current_status |-> entry.current_status,
     next_due |-> entry.next_due]

\* MedicationEntry.to_dict
to_dict(entry) ==
    [id |-> entry.id,
     device_id |-> entry.device_id,
     data |-> MedicationData_to_dict(entry.data),
     dose_history |-> [i \in 1..Len(entry.dose_history) |->
                          DoseRecord_to_dict(entry.dose_history[i])]]

\* from_dict reading the stored history newest first
from_dict_newest_first(r) ==
    MedicationEntry(r.id, r.device_id, MedicationData_from_dict(r.data),
                    [i \in 1..Len(r.dose_history) |->
                        DoseRecord_from_dict(r.dose_history[Len(r.dose_history) + 1 - i])],
                    STATE_NOT_DUE, None)

\* MedicationEntry.from_dict
from_dict_of(r) ==
    MedicationEntry(r.id, r.device_id, MedicationData_from_dict(r.data),
                    [i \in 1..Len(r.dose_history) |-> DoseRecord_from_dict(r.dose_history[i])],
                    STATE_NOT_DUE, None)

----------------------------------------------------------------------------
(* The rules the entry is created with, and the instants the callers act at *)

MedicationData(frequency, times, start_date, end_date) ==
    [frequency |-> frequency, times |-> times, start_date |-> start_date, end_date |-> end_date]

T0900 == TimeStr(9, 0)
T2100 == TimeStr(21, 0)

DailyRules ==
    {MedicationData(FREQUENCY_DAILY, ts, NoBound, NoBound) :
        ts \in {<<T0900>>, <<T0900, T2100>>, <<T2100, T0900>>, <<>>}}
    \cup {MedicationData(FREQUENCY_DAILY, <<T0900>>, DateBound(1), DateBound(1)),
          MedicationData(FREQUENCY_DAILY, <<T0900>>,
                         DatetimeBound(StartOfLocalDay(1)), DatetimeBound(EndOfLocalDay(1)))}

WeeklyRules ==
    {MedicationData(FREQUENCY_WEEKLY, <<T0900>>, NoBound, NoBound),
     MedicationData(FREQUENCY_WEEKLY, <<>>, DateBound(0), NoBound),
     MedicationData(FREQUENCY_WEEKLY, <<T0900>>, DateBound(3),
                    DatetimeBound(EndOfLocalDay(WEEK_DAYS + 1)))}

MonthlyRules ==
    {MedicationData(FREQUENCY_MONTHLY, <<T0900>>, NoBound, NoBound),
     MedicationData(FREQUENCY_MONTHLY, <<>>, DateBound(30), DateBound(45))}

AsNeededRules ==
    {MedicationData(FREQUENCY_AS_NEEDED, <<>>, NoBound, NoBound),
     MedicationData(FREQUENCY_AS_NEEDED, <<T0900>>, DateBound(1), DateBound(1))}

Rules == DailyRules \cup WeeklyRules \cup MonthlyRules \cup AsNeededRules

\* the days and the times of day the callers act at, by frequency
DayGrid(frequency) ==
    IF frequency = FREQUENCY_WEEKLY
    THEN {0, 3, WEEK_DAYS + 1} \cup {WEEK_DAYS * k : k \in 1..MaxWeek}
    ELSE IF frequency = FREQUENCY_MONTHLY
    THEN {14, 30, 31, 44, 45, 59}
    ELSE 0..MaxDay

TimeGrid(frequency) ==
    IF frequency = FREQUENCY_WEEKLY
    THEN {Hours(8), Hours(9), Hours(9) + 1, Hours(10)}
    ELSE IF frequency = FREQUENCY_MONTHLY
    THEN {Hours(9), Hours(9) + 1, Hours(11) + 1}
    ELSE {0, Hours(9), Hours(9) + 1, Hours(11), Hours(11) + 1, Hours(21), Hours(23) + 1}

Grid(frequency) ==
    {Combine(day, tod) : day \in DayGrid(frequency), tod \in TimeGrid(frequency)}

----------------------------------------------------------------------------
(* The state machine *)

\* MedicationEntry.__init__, for a rule among rules
InitWith(rules) ==
    /\ id = "med_1"
    /\ device_id = <<"medication_", id>>
    /\ data \in rules
    /\ dose_history = <<>>
    /\ current_status = STATE_NOT_DUE
    /\ next_due = None
    /\ now = Min(Grid(data.frequency))
    /\ last_op = "init"
    /\ calc = "none"
    /\ raised = "none"
    /\ event_callback = FALSE
    /\ fired = <<>>

Init == InitWith(Rules)

\* coordinator._async_update_data: medication.update_status(dt_util.now())
update_status ==
    LET o == update_status_on(data, dose_history, next_due, now)
        computed == /\ ~(before_start(data, now) \/ after_end(data, now))
                    /\ data.frequency # FREQUENCY_AS_NEEDED
                    /\ next_due = None
        e == calculate_next_due(data, dose_history, next_due, now)
    IN /\ last_op' = "update_status"
       /\ UNCHANGED <<id, device_id, dose_history, now, event_callback>>
       /\ IF computed /\ e.raised # "none"
          THEN \* the calculation raised: update_status ends before it assigns a status
               /\ data' = [data EXCEPT !.times = e.times]
               /\ raised' = e.raised
               /\ fired' = <<>>
               /\ UNCHANGED <<current_status, next_due, calc>>
          ELSE /\ data' = [data EXCEPT !.times = o.times]
               /\ current_status' = o.status
               /\ next_due' = o.next_due
               /\ calc' = IF computed THEN "update_status" ELSE calc
               /\ raised' = "none"
               /\ fired' = fire_state_change_event(event_callback, current_status, o.status)

\* A record call suspended after the append: the record is in the history, the
\* next-due and the status are those of the shorter history
record_suspended_after_append(op, taken, timestamp, ref) ==
    /\ dose_history' = Append(dose_history, DoseRecord(timestamp, taken))
    /\ last_op' = op
    /\ raised' = "none"
    /\ fired' = <<>>
    /\ UNCHANGED <<id, device_id, data, current_status, next_due, now, calc, event_callback>>

\* A record call: the record is appended, _update_next_due(ref) runs, and unless
\* it raised, update_status(timestamp) runs
record(op, taken, timestamp, ref) ==
    LET h == Append(dose_history, DoseRecord(timestamp, taken))
        e == update_next_due(data, h, next_due, ref)
        d == [data EXCEPT !.times = e.times]
        o == update_status_on(d, h, e.next_due, timestamp)
    IN /\ dose_history' = h
       /\ last_op' = op
       /\ raised' = e.raised
       /\ UNCHANGED <<id, device_id, now, event_callback>>
       /\ IF e.raised # "none"
          THEN /\ fired' = <<>>
               /\ UNCHANGED <<data, current_status, next_due, calc>>
          ELSE /\ fired' = fire_state_change_event(event_callback, current_status, o.status)
               /\ data' = [data EXCEPT !.times = o.times]
               /\ current_status' = o.status
               /\ next_due' = o.next_due
               /\ calc' = IF data.frequency = FREQUENCY_AS_NEEDED THEN calc ELSE op

\* coordinator.async_take_medication: medication.record_dose_taken(dt_util.now())
record_dose_taken ==
    /\ Len(dose_history) < MaxHistory
    /\ record("record_dose_taken", TRUE, now, now)

\* coordinator.async_skip_medication: medication.record_dose_skipped(dt_util.now())
record_dose_skipped ==
    /\ Len(dose_history) < MaxHistory
    /\ record("record_dose_skipped", FALSE, now, IF next_due # None THEN next_due ELSE now)

\* reset_schedule putting the status back to NOT_DUE as well
reset_schedule_and_status ==
    /\ next_due' = None
    /\ current_status' = STATE_NOT_DUE
    /\ calc' = "none"
    /\ last_op' = "reset_schedule"
    /\ raised' = "none"
    /\ fired' = <<>>
    /\ UNCHANGED <<id, device_id, data, dose_history, now, event_callback>>

\* MedicationEntry.reset_schedule
reset_schedule ==
    /\ next_due' = None
    /\ calc' = "none"
    /\ last_op' = "reset_schedule"
    /\ raised' = "none"
    /\ fired' = <<>>
    /\ UNCHANGED <<id, device_id, data, dose_history, current_status, now, event_callback>>

\* the entry is serialised and a new entry deserialised from the record takes its
\* place: MedicationEntry.from_dict(entry.to_dict()), as async_save_medications
\* and async_load_medications do across a restart
from_dict ==
    LET entry == from_dict_of(to_dict(MedicationEntry(id, device_id, data, dose_history,
                                                      current_status, next_due)))
    IN /\ id' = entry.id
       /\ device_id' = entry.device_id
       /\ data' = entry.data
       /\ dose_history' = entry.dose_history
       /\ current_status' = entry.current_status
       /\ next_due' = entry.next_due
       /\ event_callback' = FALSE
       /\ calc' = "none"
       /\ last_op' = "from_dict"
       /\ raised' = "none"
       /\ fired' = <<>>
       /\ UNCHANGED now

\* time passes: the clock moves to the next instant the callers act at
Advance ==
    /\ \E t \in Grid(data.frequency) : t > now
    /\ now' = Min({t \in Grid(data.frequency) : t > now})
    /\ last_op' = "advance"
    /\ fired' = <<>>
    /\ UNCHANGED <<id, device_id, data, dose_history, current_status, next_due, calc, raised,
                   event_callback>>

Next ==
    \/ update_status
    \/ record_dose_taken
    \/ record_dose_skipped
    \/ reset_schedule
    \/ from_dict
    \/ Advance

Spec == Init /\ [][Next]_vars

SpecDaily == InitWith(DailyRules) /\ [][Next]_vars

\* record and evaluate calls only, at non-decreasing times
NextCalls ==
    \/ update_status
    \/ record_dose_taken
    \/ record_dose_skipped
    \/ Advance

SpecDailyCalls == InitWith(DailyRules) /\ [][NextCalls]_vars

\* The same calls on every rule, with time passing and the coordinator's
\* periodic refresh evaluating again and again
SpecCallsLive ==
    /\ Init
    /\ [][NextCalls]_vars
    /\ WF_vars(Advance)
    /\ WF_vars(update_status)

SpecWeekly == InitWith(WeeklyRules) /\ [][Next]_vars

SpecMonthly == InitWith(MonthlyRules) /\ [][Next]_vars

SpecAsNeeded == InitWith(AsNeededRules) /\ [][Next]_vars

SpecWeeklyMonthly == InitWith(WeeklyRules \cup MonthlyRules) /\ [][Next]_vars

\* A monthly entry created on any day of the calendar, half an hour after its
\* slot, and the calls made on it that day
InitCalendar ==
    /\ id = "med_1"
    /\ device_id = <<"medication_", id>>
    /\ data \in MonthlyRules
    /\ dose_history = <<>>
    /\ current_status = STATE_NOT_DUE
    /\ next_due = None
    /\ now \in {Combine(day, Hours(DEFAULT_HOUR) + 1) : day \in 0..MaxCalendarDay}
    /\ last_op = "init"
    /\ calc = "none"
    /\ raised = "none"
    /\ event_callback = FALSE
    /\ fired = <<>>

NextCalendar ==
    \/ update_status
    \/ record_dose_taken
    \/ record_dose_skipped
    \/ reset_schedule

SpecMonthlyCalendar == InitCalendar /\ [][NextCalendar]_vars

\* Daily and weekly entries created with an empty times list
EmptyTimesRules ==
    {MedicationData(FREQUENCY_DAILY, <<>>, NoBound, NoBound),
     MedicationData(FREQUENCY_WEEKLY, <<>>, NoBound, NoBound),
     MedicationData(FREQUENCY_WEEKLY, <<>>, DateBound(0), NoBound)}

SpecEmptyTimes == InitWith(EmptyTimesRules) /\ [][Next]_vars

\* cv.string: the value is accepted when it is a text, whatever the text
cv_string(value) == value # null

\* ADD_MEDICATION_SCHEMA / UPDATE_MEDICATION_SCHEMA on the times list: [cv.string]
times_schema(times) == \A i \in 1..Len(times) : cv_string(times[i])

\* The times lists a caller offers: well-formed, with a malformed text first or
\* last, and with an entry that is no text
OfferedTimes ==
    {<<T0900>>, <<MalformedTime>>, <<T0900, MalformedTime>>, <<MalformedTime, T0900>>,
     <<null>>, <<T0900, null>>}

\* The rules async_add_medication is called with: those whose times pass the schema
AddedRules ==
    {MedicationData(frequency, times, NoBound, NoBound) :
        frequency \in {FREQUENCY_DAILY, FREQUENCY_WEEKLY},
        times \in {ts \in OfferedTimes : times_schema(ts)}}

SpecAdded == InitWith(AddedRules) /\ [][Next]_vars

\* The rules handle_update_medication builds: the times, the frequency or the
\* active range replaced, a date of the call turned into the start or the end
\* of that local day
UpdatedRules ==
    {MedicationData(FREQUENCY_DAILY, <<T0900>>, NoBound, NoBound),
     MedicationData(FREQUENCY_DAILY, <<T2100>>, NoBound, NoBound),
     MedicationData(FREQUENCY_AS_NEEDED, <<T2100>>, NoBound, NoBound),
     MedicationData(FREQUENCY_DAILY, <<T0900>>,
                    DatetimeBound(StartOfLocalDay(1)), DatetimeBound(EndOfLocalDay(1)))}

\* coordinator.async_update_medication: medication.data = medication_data; the
\* save and the requested refresh leave the entry as it is
async_update_medication ==
    /\ \E medication_data \in UpdatedRules :
          /\ medication_data # data
          /\ data' = medication_data
    /\ last_op' = "async_update_medication"
    /\ raised' = "none"
    /\ fired' = <<>>
    /\ UNCHANGED <<id, device_id, dose_history, current_status, next_due, now, calc,
                   event_callback>>

NextWithUpdates ==
    \/ Next
    \/ async_update_medication

\* A daily entry whose rule the caller replaces now and then
SpecUpdates ==
    InitWith({MedicationData(FREQUENCY_DAILY, <<T0900>>, NoBound, NoBound)})
        /\ [][NextWithUpdates]_vars

\* Entries constructed with or without an event callback
EventRules ==
    {MedicationData(FREQUENCY_DAILY, <<T0900>>, NoBound, NoBound),
     MedicationData(FREQUENCY_DAILY, <<T0900>>, DateBound(1), DateBound(1)),
     MedicationData(FREQUENCY_AS_NEEDED, <<>>, NoBound, NoBound)}

InitEvents ==
    /\ id = "med_1"
    /\ device_id = <<"medication_", id>>
    /\ data \in EventRules
    /\ dose_history = <<>>
    /\ current_status = STATE_NOT_DUE
    /\ next_due = None
    /\ now = Min(Grid(data.frequency))
    /\ last_op = "init"
    /\ calc = "none"
    /\ raised = "none"
    /\ event_callback \in BOOLEAN
    /\ fired = <<>>

SpecEvents == InitEvents /\ [][Next]_vars

----------------------------------------------------------------------------
(* Vocabulary of the properties *)

\* update_status ran to its end at the current instant, as the last call or
\* as the last step of a record call
Evaluated ==
    /\ last_op \in {"update_status", "record_dose_taken", "record_dose_skipped"}
    /\ raised = "none"

\* the current instant is inside the rule's active range
InRange == ~before_start(data, now) /\ ~after_end(data, now)

Today == LocalDate(now)

\* the positions of the records dated on a day
RecordsOn(date) == {i \in 1..Len(dose_history) : LocalDate(dose_history[i].timestamp) = date}

Latest(idx) == CHOOSE i \in idx : \A j \in idx : j <= i

\* the last record appended
LastRecord == dose_history[Len(dose_history)]

\* the most recently appended record dated today is a skip
LatestTodayIsSkip ==
    RecordsOn(Today) # {} /\ ~dose_history[Latest(RecordsOn(Today))].taken

\* some record dated today is a skip
SkipToday == \E i \in RecordsOn(Today) : ~dose_history[i].taken

\* some record dated today is a taken dose
TakenToday == \E i \in RecordsOn(Today) : dose_history[i].taken

----------------------------------------------------------------------------
(* Properties *)

C2_SkippedUntilNextDue ==
    (/\ data.frequency \in {FREQUENCY_WEEKLY, FREQUENCY_MONTHLY}
     /\ InRange
     /\ Evaluated
     /\ calc = "record_dose_skipped"
     /\ ~LastRecord.taken)
        => /\ last_op = "record_dose_skipped" => current_status = STATE_SKIPPED
           /\ now < next_due => current_status = STATE_SKIPPED
           /\ (now >= next_due /\ now <= next_due + Hours(OVERDUE_HOURS))
                 => current_status = STATE_DUE

\* the slots of the day of instant t that come strictly after t
SlotsAfter(t) == {due \in SlotsOn(data.times, LocalDate(t)) : due > t}

FirstSlotToday == Combine(Today, ParseTime(data.times[1]))

\* the last record is a taken dose dated yesterday
TakenYesterdayLast ==
    /\ dose_history # <<>>
    /\ LastRecord.taken
    /\ LocalDate(LastRecord.timestamp) = Today - 1

SkipRuleApplies ==
    IF data.frequency = FREQUENCY_DAILY THEN LatestTodayIsSkip
    ELSE dose_history # <<>> /\ ~LastRecord.taken /\ now < next_due

\* C5: in an evaluation inside the active range where no skip rule applies and
\* the current instant has reached next-due, the status is DUE up to and
\* including next-due + 2 hours and OVERDUE after that (never TAKEN or NOT_DUE).
C5_DueThenOverdue ==
    (/\ data.frequency # FREQUENCY_AS_NEEDED
     /\ InRange
     /\ Evaluated
     /\ next_due # None
     /\ ~SkipRuleApplies
     /\ now >= next_due)
        => current_status =
             IF now <= next_due + Hours(OVERDUE_HOURS) THEN STATE_DUE ELSE STATE_OVERDUE

\* C5 witness: an evaluation exactly 2 hours after next-due, with a taken dose
\* recorded today: DUE
C5_Witness ==
    /\ last_op = "update_status"
    /\ InRange
    /\ next_due # None
    /\ now = next_due + Hours(OVERDUE_HOURS)
    /\ TakenToday
    /\ current_status = STATE_DUE

\* the first and the last day of the rule's active range (None when unbounded)
FirstActiveDay ==
    IF data.start_date.kind = "datetime" THEN LocalDate(data.start_date.value)
    ELSE data.start_date.value

LastActiveDay ==
    IF data.end_date.kind = "datetime" THEN LocalDate(data.end_date.value)
    ELSE data.end_date.value

\* the current day is before the first active day or after the last one
OutsideActiveDays ==
    \/ data.start_date.kind # "none" /\ Today < FirstActiveDay
    \/ data.end_date.kind # "none" /\ Today > LastActiveDay

\* the status update_status gives the entry when its rule has no bounds
UnboundedStatus ==
    update_status_on([data EXCEPT !.start_date = NoBound, !.end_date = NoBound],
                     dose_history, next_due, now).status

\* C6: an evaluation on a day before the first active day or after the last one
\* yields NOT_DUE, for every frequency, history and cached next-due; an
\* evaluation on a day of the range, the first and the last included, yields the
\* status the rule would have without bounds.
C6_ActiveRange ==
    Evaluated
        => /\ OutsideActiveDays => current_status = STATE_NOT_DUE
           /\ ~OutsideActiveDays => current_status = UnboundedStatus

\* C6 witness: a record of today in the ledger and a cached next-due, evaluated
\* outside the range: NOT_DUE
C6_Witness ==
    /\ last_op = "update_status"
    /\ OutsideActiveDays
    /\ data.frequency # FREQUENCY_AS_NEEDED
    /\ RecordsOn(Today) # {}
    /\ next_due # None
    /\ now >= next_due
    /\ current_status = STATE_NOT_DUE

\* C7: an as-needed entry has status NOT_DUE and no next-due after any sequence
\* of evaluations and records.
C7_AsNeededNeverDue ==
    data.frequency = FREQUENCY_AS_NEEDED
        => current_status = STATE_NOT_DUE /\ next_due = None

\* C7 witness: an as-needed entry inside its range, evaluated after a taken dose
\* and a skip
C7_Witness ==
    /\ data.frequency = FREQUENCY_AS_NEEDED
    /\ InRange
    /\ last_op = "update_status"
    /\ Len(dose_history) = 2
    /\ dose_history[1].taken
    /\ ~dose_history[2].taken
    /\ current_status = STATE_NOT_DUE
    /\ next_due = None

\* the reference instant of the next-due calculation a step makes: the cached
\* next-due (if any) for record_dose_skipped, the current instant otherwise
StepReference ==
    IF last_op' = "record_dose_skipped" /\ next_due # None THEN next_due ELSE now

\* a step in which a daily rule's next-due is calculated and assigned: a record
\* call that did not raise, or an evaluation inside the range with nothing cached
DailyCalculationStep ==
    /\ data.frequency = FREQUENCY_DAILY
    /\ raised' = "none"
    /\ \/ last_op' \in {"record_dose_taken", "record_dose_skipped"}
          /\ Len(dose_history') = Len(dose_history) + 1
       \/ last_op' = "update_status" /\ next_due = None /\ InRange

\* C8: when a daily next-due calculation finds no slot of the reference date
\* strictly after the reference instant, next-due is the earliest slot of the
\* reference date if no record (taken or skipped) is dated on it, and rolls to
\* the first slot of the next day only if some record is.
C8_DailyPendingOrRoll ==
    [][ (/\ DailyCalculationStep
         /\ {due \in SlotsOn(data'.times, LocalDate(StepReference)) : due > StepReference} = {})
          => LET ref_date == LocalDate(StepReference)
                 recorded == \E i \in 1..Len(dose_history') :
                                 LocalDate(dose_history'[i].timestamp) = ref_date
             IN next_due' = IF recorded
                            THEN Combine(ref_date + 1, ParseTime(data'.times[1]))
                            ELSE Min(SlotsOn(data'.times, ref_date)) ]_vars

\* C8 witness: an evaluation that calculated next-due after the day's only slot,
\* with no record today and a skip recorded the day before: next-due is today's
\* slot, a past instant, and the status OVERDUE
C8_Witness ==
    /\ data.frequency = FREQUENCY_DAILY
    /\ last_op = "update_status"
    /\ calc = "update_status"
    /\ InRange
    /\ RecordsOn(Today) = {}
    /\ RecordsOn(Today - 1) # {}
    /\ ~LastRecord.taken
    /\ Len(data.times) = 1
    /\ next_due = Combine(Today, ParseTime(data.times[1]))
    /\ next_due < now
    /\ current_status = STATE_OVERDUE

\* the slot a skip recorded now answers: the cached next-due if it is a slot of
\* today, the day's earliest slot otherwise
SkippedSlot ==
    IF next_due # None /\ LocalDate(next_due) = Today THEN next_due
    ELSE Min(SlotsOn(data.times, Today))

\* C9: for a daily rule inside its active range, record_dose_skipped on day d
\* leaves the status SKIPPED and next-due at the next slot after the skipped one:
\* a later slot of day d if the rule has one, otherwise the first slot of day
\* d+1, whatever next-due was cached (none, a slot of day d, a slot of an earlier
\* day left overdue).
C9_SkipRollsNextDue ==
    [][ (/\ data.frequency = FREQUENCY_DAILY
         /\ data.times # <<>>
         /\ InRange
         /\ last_op' = "record_dose_skipped"
         /\ Len(dose_history') = Len(dose_history) + 1)
          => LET later == {due \in SlotsOn(data.times, Today) : due > SkippedSlot}
             IN /\ current_status' = STATE_SKIPPED
                /\ next_due' = IF later # {} THEN Min(later)
                               ELSE Combine(Today + 1, ParseTime(data.times[1])) ]_vars

\* C10: for a weekly rule, after record_dose_taken at t (and until next-due is
\* assigned again) next-due is the date of t plus 7 days at the time of day of
\* the rule's first slot; an evaluation at that instant, inside the active
\* range, yields DUE.
C10_WeeklyAfterTaken ==
    (data.frequency = FREQUENCY_WEEKLY /\ calc = "record_dose_taken")
        => /\ LastRecord.taken
           /\ next_due = Combine(LocalDate(LastRecord.timestamp) + WEEK_DAYS,
                                 ParseTime(data.times[1]))
           /\ (Evaluated /\ InRange /\ now = next_due) => current_status = STATE_DUE

\* C10 witness: a dose taken half an hour after the slot, evaluated 7 days later
\* at the slot's instant: DUE
C10_Witness ==
    /\ data.frequency = FREQUENCY_WEEKLY
    /\ calc = "record_dose_taken"
    /\ last_op = "update_status"
    /\ InRange
    /\ LocalTime(LastRecord.timestamp) = ParseTime(data.times[1]) + 1
    /\ now = Combine(LocalDate(LastRecord.timestamp) + WEEK_DAYS, ParseTime(data.times[1]))
    /\ now = next_due
    /\ current_status = STATE_DUE

\* a step that appends a skip while a next-due is cached
SkipOfCachedSlot ==
    /\ last_op' = "record_dose_skipped"
    /\ Len(dose_history') = Len(dose_history) + 1
    /\ next_due # None

\* C11: for a weekly rule, record_dose_skipped with a next-due cached moves
\* next-due to exactly 7 days after that cached slot, at the slot's time of day,
\* whatever the last taken dose and however long after (or before) the slot the
\* skip is recorded; hence k consecutive skips move it by 7k days.
C11_WeeklySkipAdvances ==
    [][ (data.frequency = FREQUENCY_WEEKLY /\ SkipOfCachedSlot)
          => /\ next_due' = next_due + Days(WEEK_DAYS)
             /\ LocalTime(next_due') = ParseTime(data'.times[1]) ]_vars

\* C11 witness: two consecutive skips, the second recorded a day and an hour
\* after its slot (day 7, 09:00): next-due is 14 days after the first slot
C11_Witness ==
    /\ data.frequency = FREQUENCY_WEEKLY
    /\ last_op = "record_dose_skipped"
    /\ Len(dose_history) = 2
    /\ ~dose_history[1].taken
    /\ ~dose_history[2].taken
    /\ LocalDate(dose_history[1].timestamp) = 0
    /\ dose_history[2].timestamp = Combine(WEEK_DAYS + 1, Hours(10))
    /\ next_due = Combine(2 * WEEK_DAYS, ParseTime(data.times[1]))

\* the calendar month after the month of a date
MonthAfter(c) ==
    [year |-> IF c.month = 12 THEN c.year + 1 ELSE c.year,
     month |-> IF c.month = 12 THEN 1 ELSE c.month + 1]

MonthlySkipAfterTaken ==
    /\ data.frequency = FREQUENCY_MONTHLY
    /\ last_op' = "record_dose_skipped"
    /\ Len(dose_history') = Len(dose_history) + 1
    /\ last_taken(dose_history) # None

\* the next-due after such a step is in the month after the month of instant
\* ref, on ref's day of the month at the last taken dose's time of day, or on
\* day 1 at 09:00 when that month has no such day
NextDueInMonthAfter(ref) ==
    LET ref_on == DateOf(LocalDate(ref))
        due_on == DateOf(LocalDate(next_due'))
        next_month == MonthAfter(ref_on)
    IN /\ due_on.year = next_month.year
       /\ due_on.month = next_month.month
       /\ IF ref_on.day <= DaysInMonth(next_month.year, next_month.month)
          THEN /\ due_on.day = ref_on.day
               /\ LocalTime(next_due') = LocalTime(last_taken(dose_history))
          ELSE /\ due_on.day = 1
               /\ LocalTime(next_due') = Hours(DEFAULT_HOUR)

\* a monthly entry evaluated inside its range, before the next-due its last
\* record, a skip following a taken dose, gave it
BeforeNextDueOfMonthlySkip ==
    /\ data.frequency = FREQUENCY_MONTHLY
    /\ calc = "record_dose_skipped"
    /\ last_taken(dose_history) # None
    /\ Evaluated
    /\ InRange
    /\ now < next_due

EvaluationStep ==
    /\ last_op' \in {"update_status", "record_dose_taken", "record_dose_skipped"}
    /\ raised' = "none"
    /\ last_op' # "update_status" => Len(dose_history') = Len(dose_history) + 1

\* the events of an evaluation: one, carrying the status before and after, when
\* the status changed, none when it did not
OneEventPerChange ==
    fired' = IF current_status' # current_status
             THEN <<[old_status |-> current_status, new_status |-> current_status']>>
             ELSE <<>>

\* C14 (as stated): every evaluation that changes the status emits exactly one
\* state-change event carrying the status before and after, and an evaluation
\* that leaves the status unchanged (a first evaluation staying at NOT_DUE
\* included) emits none.
C14_EveryChangeNotified ==
    [][ EvaluationStep => OneEventPerChange ]_vars

\* C14 (amended): for an entry constructed with an event callback, every
\* evaluation that changes the status emits exactly one state-change event
\* carrying the status before and after, and an evaluation that leaves the
\* status unchanged emits none; an entry without a callback emits none at all.
C14_ChangeNotifiedToCallback ==
    [][ EvaluationStep
          => IF event_callback THEN OneEventPerChange ELSE fired' = <<>> ]_vars

\* C14 witness: a record call on an entry with a callback changed the status from
\* DUE to TAKEN and emitted the one event saying so
C14_Witness ==
    /\ event_callback
    /\ last_op = "record_dose_taken"
    /\ raised = "none"
    /\ current_status = STATE_TAKEN
    /\ fired = <<[old_status |-> STATE_DUE, new_status |-> STATE_TAKEN]>>

\* the record calls
RecordOps == {"record_dose_taken", "record_dose_skipped"}

\* C15: the dose history is append-only: a record_dose_taken or
\* record_dose_skipped call appends exactly one occurrence at the end, carrying
\* the instant and the outcome of the call, and every other operation (an
\* evaluation, reset_schedule, a serialise/deserialise round trip, the passing
\* of time) leaves every occurrence present, unmodified and in insertion order.
C15_HistoryAppendOnly ==
    [][ IF last_op' \in RecordOps
        THEN /\ Len(dose_history') = Len(dose_history) + 1
             /\ SubSeq(dose_history', 1, Len(dose_history)) = dose_history
             /\ dose_history'[Len(dose_history')] =
                    [timestamp |-> now, taken |-> last_op' = "record_dose_taken", notes |-> ""]
        ELSE dose_history' = dose_history ]_vars

\* C15 witness: a history of a taken dose followed, at a later instant, by a
\* skipped one has just gone through serialisation and deserialisation
C15_Witness ==
    /\ last_op = "from_dict"
    /\ Len(dose_history) = 2
    /\ dose_history[1].taken
    /\ ~dose_history[2].taken
    /\ dose_history[1].timestamp < dose_history[2].timestamp

\* the positions of the history whose record has the given outcome
Positions(taken) == {i \in 1..Len(dose_history) : dose_history[i].taken = taken}

\* C16: missed_doses is the number of skipped entries of the history;
\* adherence_rate is 100 x (taken entries) / (all entries), and 0 for an empty
\* history; the rate lies within [0, 100]; missed_doses plus the number of
\* taken entries is the length of the history.
C16_AdherenceNumbers ==
    LET rate == adherence_rate(dose_history)
        taken == Cardinality(Positions(TRUE))
    IN /\ missed_doses(dose_history) = Cardinality(Positions(FALSE))
       /\ rate.den > 0
       /\ IF dose_history = <<>>
          THEN rate.num = 0
          ELSE rate.num * Len(dose_history) = 100 * taken * rate.den
       /\ Leq(Quotient(0, 1), rate)
       /\ Leq(rate, Quotient(100, 1))
       /\ missed_doses(dose_history) + taken = Len(dose_history)

\* C16 witness: one taken and one skipped dose: one missed, rate 50
C16_Witness ==
    /\ Len(dose_history) = 2
    /\ Cardinality(Positions(TRUE)) = 1
    /\ missed_doses(dose_history) = 1
    /\ adherence_rate(dose_history) = Quotient(100, 2)

\* C17: adherence_rate is unchanged by an evaluation (update_status), and a
\* record_dose_skipped call, which appends a skipped occurrence, never
\* increases it.
C17_AdherenceUnderEvaluationAndSkip ==
    [][ /\ last_op' = "update_status"
            => /\ Leq(adherence_rate(dose_history'), adherence_rate(dose_history))
               /\ Leq(adherence_rate(dose_history), adherence_rate(dose_history'))
        /\ last_op' = "record_dose_skipped"
            => Leq(adherence_rate(dose_history'), adherence_rate(dose_history)) ]_vars

\* C17 witness: a skip recorded after one taken dose brought the rate from 100
\* down to 50, and the evaluation that followed has left it there
C17_Witness ==
    /\ last_op = "update_status"
    /\ calc = "record_dose_skipped"
    /\ Len(dose_history) = 2
    /\ dose_history[1].taken
    /\ ~dose_history[2].taken
    /\ adherence_rate(SubSeq(dose_history, 1, 1)) = Quotient(100, 1)
    /\ adherence_rate(dose_history) = Quotient(100, 2)

\* the entry as it is in memory
Entry == MedicationEntry(id, device_id, data, dose_history, current_status, next_due)

\* the values a cached next-due can have
NextDues == {None} \cup Grid(data.frequency)

\* a stored record that carries calculated values besides the four keys
WithCalculatedValues(r, status, nd) ==
    [id |-> r.id, device_id |-> r.device_id, data |-> r.data, dose_history |-> r.dose_history,
     current_status |-> status, next_due |-> nd]

\* C18: an entry loaded from a stored record has current_status NOT_DUE and no
\* next-due, whatever the record contains; the record produced by saving an
\* entry has the keys id, device_id, data (the rule) and dose_history and no
\* other; two entries that differ only in current_status or in the cached
\* next-due serialise to the same record.
C18_CalculatedValuesNotStored ==
    LET saved == to_dict(Entry)
    IN /\ DOMAIN saved = {"id", "device_id", "data", "dose_history"}
       /\ from_dict_of(saved).current_status = STATE_NOT_DUE
       /\ from_dict_of(saved).next_due = None
       /\ \A status \in States, nd \in NextDues :
             /\ to_dict(MedicationEntry(id, device_id, data, dose_history, status, nd)) = saved
             /\ from_dict_of(WithCalculatedValues(saved, status, nd)).current_status
                    = STATE_NOT_DUE
             /\ from_dict_of(WithCalculatedValues(saved, status, nd)).next_due = None
       /\ last_op = "from_dict" => current_status = STATE_NOT_DUE /\ next_due = None

\* C18 witness: an entry whose last dose was taken today has been saved and
\* loaded: the loaded entry is NOT_DUE with no next-due
C18_Witness ==
    /\ last_op = "from_dict"
    /\ dose_history # <<>>
    /\ dose_history[Len(dose_history)].taken
    /\ LocalDate(dose_history[Len(dose_history)].timestamp) = LocalDate(now)
    /\ current_status = STATE_NOT_DUE
    /\ next_due = None

\* the entry read back from its own stored record
RoundTrip == from_dict_of(to_dict(Entry))

\* the round trip reproduces the id, the rule and the history of the entry
SameAfterRoundTrip ==
    /\ RoundTrip.id = id
    /\ RoundTrip.data.frequency = data.frequency
    /\ RoundTrip.data.times = data.times
    /\ RoundTrip.data.start_date.kind = data.start_date.kind
    /\ RoundTrip.data.start_date.value = data.start_date.value
    /\ RoundTrip.data.end_date.kind = data.end_date.kind
    /\ RoundTrip.data.end_date.value = data.end_date.value
    /\ Len(RoundTrip.dose_history) = Len(dose_history)
    /\ \A i \in 1..Len(dose_history) :
          /\ RoundTrip.dose_history[i].timestamp = dose_history[i].timestamp
          /\ RoundTrip.dose_history[i].taken = dose_history[i].taken
          /\ RoundTrip.dose_history[i].notes = dose_history[i].notes

\* C19: deserialise(serialise(entry)) reproduces the entry's id, its rule
\* (frequency, times in order, start_date and end_date, each still a date or
\* still a datetime or still absent) and its history (length, order, and the
\* instant, outcome and notes of every record); the entry that replaces the
\* original after a save and a load has them unchanged.
C19_RoundTrip ==
    /\ [](SameAfterRoundTrip)
    /\ [][ last_op' = "from_dict"
             => id' = id /\ data' = data /\ dose_history' = dose_history ]_vars

\* C19 witness: an entry whose rule has two times, evening first, or datetime
\* bounds, and whose history holds a taken and a skipped dose, has been saved
\* and loaded
C19_Witness ==
    /\ last_op = "from_dict"
    /\ data.start_date.kind = "datetime" \/ data.times = <<T2100, T0900>>
    /\ Len(dose_history) = 2
    /\ ~dose_history[1].taken
    /\ dose_history[2].taken

\* the status update_status(t) gives the entry as it is in memory
StatusOfOriginalAt(t) == update_status_on(data, dose_history, next_due, t).status

\* the status update_status(t) gives a freshly loaded copy of the entry
StatusOfLoadedCopyAt(t) ==
    update_status_on(RoundTrip.data, RoundTrip.dose_history, RoundTrip.next_due, t).status

\* C20: in every state reached by record and evaluate calls at non-decreasing
\* times, and for every reference time t from the current time on, evaluating
\* a freshly loaded copy of the entry (same rule and history, NOT_DUE, no
\* cached next-due) at t yields the same status as evaluating the entry in
\* memory at t.
C20_LoadedCopySameStatus ==
    \A t \in Grid(data.frequency) :
        t >= now => StatusOfLoadedCopyAt(t) = StatusOfOriginalAt(t)

\* what the next-due calculation gives from scratch (nothing cached) at time u
NextDueFromScratch(u) == calculate_next_due(data, dose_history, None, u).next_due

\* an evaluation has just run, in range, on the next-due a record call left
EvaluatedAfterRecord ==
    /\ last_op = "update_status"
    /\ calc \in RecordOps
    /\ raised = "none"
    /\ InRange

\* C21: recording an occurrence invalidates the cached next-due: in an
\* evaluation at time u that follows a record call, the next-due in force is
\* what the next-due calculation gives from scratch from the rule, the history
\* with the new occurrence and u, not a value derived from the occurrence's
\* timestamp or from the next-due cached before.
C21_RecordInvalidatesNextDue ==
    EvaluatedAfterRecord => next_due = NextDueFromScratch(now)

\* C22: reset_schedule sets the cached next-due to none and changes nothing
\* else (id, rule, history and current_status stay as they were); an in-range
\* evaluation at time t that finds no next-due cached, as the first one after a
\* reset does, leaves the next-due calculated from the rule, the history and t.
C22_ResetClearsNextDueOnly ==
    [][ /\ last_op' = "reset_schedule"
            => /\ next_due' = None
               /\ UNCHANGED <<id, device_id, data, dose_history, current_status>>
        /\ (last_op' = "update_status" /\ next_due = None /\ InRange)
            => next_due' = NextDueFromScratch(now) ]_vars

\* C22 witness: the schedule of an overdue entry with a dose on record has been
\* reset: no next-due, still OVERDUE
C22_Witness ==
    /\ last_op = "reset_schedule"
    /\ next_due = None
    /\ dose_history # <<>>
    /\ current_status = STATE_OVERDUE

\* C23: for a daily or weekly rule created with an empty times list, no
\* operation fails, in whatever order evaluations and record calls are made (a
\* record call before any in-range evaluation included), and the entry behaves
\* as one with times ["09:00"]: a next-due, once there is one, is at 09:00, and
\* the record call leaves one.
C23_EmptyTimesDefaulted ==
    /\ raised = "none"
    /\ next_due # None => LocalTime(next_due) = Hours(DEFAULT_HOUR)
    /\ last_op \in RecordOps => next_due # None /\ data.times = <<TimeStr(DEFAULT_HOUR, 0)>>

\* C24: a rule with a time string that does not parse as HH:MM is rejected when
\* the rule is constructed: no entry holds such a rule, and no next-due
\* calculation raises on a malformed time string.
C24_MalformedTimeRejected ==
    /\ \A i \in 1..Len(data.times) : parses(data.times[i])
    /\ raised # "ValueError"

\* the statuses a recorded occurrence gives
Settled == {STATE_SKIPPED, STATE_TAKEN}

\* at time t the period after the last occurrence is open: a later calendar
\* day for a daily rule, the next-due reached for a weekly or monthly one
NextPeriodOpenAt(t) ==
    IF data.frequency = FREQUENCY_DAILY
    THEN dose_history # <<>> /\ LocalDate(t) > LocalDate(LastRecord.timestamp)
    ELSE next_due # None /\ t >= next_due

\* the callers still act at an instant at which the next period is open
NextPeriodComes == \E t \in Grid(data.frequency) : t >= now /\ NextPeriodOpenAt(t)

\* C25: SKIPPED and TAKEN are not terminal: an evaluation made once the next
\* period is open (the next calendar day for a daily rule, the next-due for a
\* weekly or monthly one) never yields SKIPPED or TAKEN, and from any state
\* whose status is SKIPPED or TAKEN, with evaluations going on at increasing
\* times and no further occurrence recorded, the status eventually becomes
\* another one.
C25_SettledNotTerminal ==
    /\ []((last_op = "update_status" /\ raised = "none" /\ NextPeriodOpenAt(now))
            => current_status \notin Settled)
    /\ \A n \in 0..MaxHistory :
          (current_status \in Settled /\ Len(dose_history) = n /\ NextPeriodComes)
             ~> (current_status \notin Settled \/ Len(dose_history) # n)

\* C25 witness: a weekly dose was taken, and an evaluation at the next-due, a
\* week later, found the entry DUE
C25_Witness ==
    /\ data.frequency = FREQUENCY_WEEKLY
    /\ last_op = "update_status"
    /\ dose_history # <<>>
    /\ LastRecord.taken
    /\ next_due = Combine(LocalDate(LastRecord.timestamp) + WEEK_DAYS, Hours(DEFAULT_HOUR))
    /\ now >= next_due
    /\ current_status \in {STATE_DUE, STATE_OVERDUE}

\* the earliest instant a daily rule schedules from reference time r on: the
\* earliest slot after r on r's date, else the earliest slot of that date not
\* handled yet, else the earliest slot of the next day
EarliestScheduled(times, h, r) ==
    LET today == LocalDate(r)
        future == {due \in SlotsOn(times, today) : due > r}
        pending == {due \in SlotsOn(times, today) : ~was_dose_handled_for_time(h, due)}
    IN IF future # {} THEN Min(future)
       ELSE IF pending # {} THEN Min(pending)
       ELSE Min(SlotsOn(times, today + 1))

\* the reference time of the next-due calculation made in this step, None when
\* the step makes none
ReferenceOfStep ==
    IF last_op' = "record_dose_taken" THEN now
    ELSE IF last_op' = "record_dose_skipped" THEN (IF next_due # None THEN next_due ELSE now)
    ELSE IF last_op' = "update_status" /\ next_due = None /\ InRange THEN now
    ELSE None

\* C26: for a daily rule, whatever the order of its times list, every next-due
\* calculation yields the earliest instant the rule schedules: the earliest
\* slot strictly after the reference time on the reference date, else the
\* earliest still-pending slot of that date, else the earliest slot of the
\* next calendar day.
C26_DailyEarliestSlot ==
    [][ (data.frequency = FREQUENCY_DAILY /\ ReferenceOfStep # None /\ raised' = "none")
          => next_due' = EarliestScheduled(data'.times, dose_history', ReferenceOfStep) ]_vars

\* the scheduled slot on the date of start_date, or on the reference date when
\* the rule has no start_date
FirstWeeklySlot(r) == Combine(weekly_start_date(data, r), ParseTime(default_times(data.times)[1]))

\* an in-range evaluation computes the next-due of a weekly rule without history
WeeklyFirstCalculation ==
    /\ data.frequency = FREQUENCY_WEEKLY
    /\ dose_history = <<>>
    /\ next_due = None
    /\ InRange
    /\ last_op' = "update_status"

\* C27: for a weekly rule with an empty history the next-due computed at
\* reference time r is the scheduled slot on the date of start_date (on the
\* date of r when there is none) if that instant is after r, and otherwise a
\* later weekly occurrence of that slot; in every case it is strictly after r,
\* however far start_date lies in the past.
C27_WeeklyFirstDoseAhead ==
    [][ WeeklyFirstCalculation
          => /\ next_due' > now
             /\ IF FirstWeeklySlot(now) > now
                THEN next_due' = FirstWeeklySlot(now)
                ELSE \E k \in 1..(MaxWeek + 1) :
                        next_due' = FirstWeeklySlot(now) + k * Days(WEEK_DAYS) ]_vars

\* an evaluation of a monthly entry that has no record at all
MonthlyEvaluationWithoutHistory ==
    /\ data.frequency = FREQUENCY_MONTHLY
    /\ dose_history' = <<>>
    /\ last_op' = "update_status"

\* the first in-range evaluation anchors next-due at its own time and yields DUE
AnchoredAtFirstEvaluation ==
    (next_due = None /\ InRange) => (next_due' = now /\ current_status' = STATE_DUE)

\* an evaluation that finds the anchor keeps it and yields DUE up to two hours
\* after it and OVERDUE later
DueThenOverdue ==
    /\ next_due' = next_due
    /\ current_status' = IF now <= next_due + Hours(OVERDUE_HOURS) THEN STATE_DUE
                          ELSE STATE_OVERDUE

\* C28 (as stated): for a monthly rule with no history at all, the first
\* in-range evaluation at time t sets next-due to t and yields DUE; with no
\* record or reset in between, every later evaluation keeps next-due = t and
\* yields DUE up to t + 2 hours and OVERDUE afterwards.
C28_AnchorAtEveryLaterEvaluation ==
    [][ MonthlyEvaluationWithoutHistory
          => /\ AnchoredAtFirstEvaluation
             /\ next_due # None => DueThenOverdue ]_vars

\* C28 (amended): for a monthly rule with no history at all, the first in-range
\* evaluation at time t sets next-due to t and yields DUE; with no record, reset
\* or reload in between, every later evaluation keeps next-due = t, and every
\* later evaluation inside the active range yields DUE up to t + 2 hours and
\* OVERDUE afterwards, while one after the end of the range yields NOT_DUE.
C28_AnchorAtLaterEvaluationInRange ==
    [][ MonthlyEvaluationWithoutHistory
          => /\ AnchoredAtFirstEvaluation
             /\ next_due # None
                  => IF InRange THEN DueThenOverdue
                     ELSE next_due' = next_due /\ current_status' = STATE_NOT_DUE ]_vars

\* C28 witness: a monthly entry without history, evaluated in range more than
\* two hours after the evaluation that anchored its next-due: OVERDUE
C28_Witness ==
    /\ data.frequency = FREQUENCY_MONTHLY
    /\ dose_history = <<>>
    /\ last_op = "update_status"
    /\ InRange
    /\ next_due # None
    /\ now > next_due + Hours(OVERDUE_HOURS)
    /\ current_status = STATE_OVERDUE

\* a weekly or monthly entry whose most recent record is a taken dose has been
\* evaluated in range before its next-due
EvaluatedBeforeNextDueAfterTaken ==
    /\ data.frequency \in {FREQUENCY_WEEKLY, FREQUENCY_MONTHLY}
    /\ dose_history # <<>>
    /\ LastRecord.taken
    /\ Evaluated
    /\ InRange
    /\ next_due # None
    /\ LastRecord.timestamp <= now
    /\ now < next_due

\* C29: for a weekly or monthly rule whose most recent record is a taken dose
\* at time t, an in-range evaluation at time u with t <= u < next-due yields
\* TAKEN exactly when u - t is less than the dose interval (7 days for weekly,
\* 30 days for monthly), and NOT_DUE otherwise.
C29_TakenWithinInterval ==
    EvaluatedBeforeNextDueAfterTaken
        => current_status =
              IF now - LastRecord.timestamp
                    < Days(IF data.frequency = FREQUENCY_WEEKLY THEN WEEK_DAYS
                           ELSE MONTH_INTERVAL_DAYS)
              THEN STATE_TAKEN
              ELSE STATE_NOT_DUE

\* C29 witness: a weekly dose taken an hour before its slot; a week later,
\* at the same time of day, the entry is still before its next-due and NOT_DUE
C29_Witness ==
    /\ EvaluatedBeforeNextDueAfterTaken
    /\ data.frequency = FREQUENCY_WEEKLY
    /\ now - LastRecord.timestamp = Days(WEEK_DAYS)
    /\ current_status = STATE_NOT_DUE

\* C30: for a monthly rule, the next-due that follows a taken dose at time t is
\* about one month after t: never less than 28 days and never more than 31
\* days after t, for every calendar date of t, days 29 to 31 included.
C30_MonthlyAboutOneMonth ==
    (/\ data.frequency = FREQUENCY_MONTHLY
     /\ dose_history # <<>>
     /\ LastRecord.taken
     /\ calc # "none"
     /\ next_due # None)
        => /\ next_due - LastRecord.timestamp >= Days(28)
           /\ next_due - LastRecord.timestamp <= Days(31)

\* the times of day the current rule schedules
TimesOfRule == {ParseTime(data.times[i]) : i \in 1..Len(data.times)}

\* C31: after any sequence of record, evaluate, reset and rule-update
\* operations, the next-due in force at an in-range evaluation is one computed
\* from the entry's current rule and history, none derived from a replaced rule:
\* for a daily or weekly rule it is at a time of day the current rule schedules.
C31_NextDueOfCurrentRule ==
    (/\ last_op = "update_status"
     /\ raised = "none"
     /\ InRange
     /\ data.frequency \in {FREQUENCY_DAILY, FREQUENCY_WEEKLY})
        => /\ next_due # None
           /\ LocalTime(next_due) \in TimesOfRule

update_status_of(entry, current_time) ==
    LET computed == /\ ~(before_start(entry.data, current_time)
                          \/ after_end(entry.data, current_time))
                    /\ entry.data.frequency # FREQUENCY_AS_NEEDED
                    /\ entry.next_due = None
        e == calculate_next_due(entry.data, entry.dose_history, entry.next_due, current_time)
        o == update_status_on(entry.data, entry.dose_history, entry.next_due, current_time)
    IN IF computed /\ e.raised # "none"
       THEN [entry |-> [entry EXCEPT !.data.times = e.times], raised |-> e.raised]
       ELSE [entry |-> [entry EXCEPT !.data.times = o.times,
                                     !.current_status = o.status,
                                     !.next_due = o.next_due],
             raised |-> "none"]

\* coordinator._async_update_data on loaded medications, given in the order the
\* dictionary iterates them: update_status on each in turn, the loop left at
\* the first call that raises
RECURSIVE async_update_data(_, _)
async_update_data(medications, current_time) ==
    IF medications = <<>> THEN [medications |-> <<>>, raised |-> "none"]
    ELSE LET r == update_status_of(Head(medications), current_time)
         IN IF r.raised # "none"
            THEN [medications |-> <<r.entry>> \o Tail(medications), raised |-> r.raised]
            ELSE LET rest == async_update_data(Tail(medications), current_time)
                 IN [medications |-> <<r.entry>> \o rest.medications, raised |-> rest.raised]

\* A second medication of the coordinator, as async_add_medication constructs it
OtherEntries ==
    {MedicationEntry("med_2", <<"medication_", "med_2">>, d, <<>>, STATE_NOT_DUE, None) :
        d \in AddedRules}

\* C33: operations on one tracked entry leave every other entry as it is, and
\* the status each entry gets from a coordinator refresh does not depend on the
\* order in which the entries are iterated: refreshing this entry before or
\* after another one gives both the same status.
C33_RefreshOrderIndependent ==
    \A other \in OtherEntries :
        LET first == async_update_data(<<Entry, other>>, now).medications
            second == async_update_data(<<other, Entry>>, now).medications
        IN /\ first[1].current_status = second[2].current_status
           /\ first[2].current_status = second[1].current_status

\* the current instant is outside the active range, or the rule is as-needed
OutsideOrAsNeeded ==
    \/ before_start(data, now)
    \/ after_end(data, now)
    \/ data.frequency = FREQUENCY_AS_NEEDED

\* C34: an evaluation that returns NOT_DUE because the current time is outside
\* the active range, or because the frequency is as-needed, leaves the cached
\* next-due exactly as it was: none stays none, a value stays that value.
C34_NotDueKeepsNextDue ==
    [][(last_op' = "update_status" /\ OutsideOrAsNeeded)
          => /\ current_status' = STATE_NOT_DUE
             /\ next_due' = next_due
             /\ raised' = "none"]_vars

\* an evaluation before the start of the range with nothing cached, or after
\* its end with a next-due cached inside it
C34_Witness ==
    /\ last_op = "update_status"
    /\ current_status = STATE_NOT_DUE
    /\ \/ before_start(data, now) /\ next_due = None
       \/ after_end(data, now) /\ next_due # None /\ next_due < now

\* C35: evaluation is idempotent at a fixed time: an update_status call that
\* directly follows an update_status call at the same instant leaves the status
\* and the cached next-due of the first call and hands no event to the callback.
C35_EvaluateIdempotent ==
    [][(/\ last_op = "update_status"
        /\ raised = "none"
        /\ last_op' = "update_status")
          => /\ current_status' = current_status
             /\ next_due' = next_due
             /\ raised' = "none"
             /\ fired' = <<>>]_vars

\* an entry with a callback evaluated as DUE, the evaluation handing over no event
C35_Witness ==
    /\ last_op = "update_status"
    /\ raised = "none"
    /\ event_callback
    /\ current_status = STATE_DUE
    /\ next_due # None
    /\ now >= next_due
    /\ fired = <<>>

\* a text datetime.fromisoformat rejects
UnparseableText == [has_T |-> TRUE, unparseable |-> TRUE]

\* The exception MedicationEntry.from_dict leaves with on a stored record: a
\* KeyError for a missing key, a ValueError for a text fromisoformat rejects, in
\* the order from_dict reads the record
from_dict_raises(r) ==
    IF "id" \notin DOMAIN r \/ "data" \notin DOMAIN r THEN "KeyError"
    ELSE IF r.data.start_date = UnparseableText \/ r.data.end_date = UnparseableText
    THEN "ValueError"
    ELSE IF "frequency" \notin DOMAIN r.data THEN "KeyError"
    ELSE IF \E i \in 1..Len(r.dose_history) : r.dose_history[i].timestamp = UnparseableText
    THEN "ValueError"
    ELSE "none"

\* coordinator.async_load_medications on the stored records, in the order the
\* stored dictionary iterates them: each is deserialised and put into
\* _medications; a ValueError is caught around the whole loop and logged, a
\* KeyError leaves the method, and either way the loop ends there
RECURSIVE async_load_medications(_)
async_load_medications(stored) ==
    IF stored = <<>> THEN [medications |-> <<>>, raised |-> "none"]
    ELSE LET exc == from_dict_raises(Head(stored))
         IN IF exc # "none" THEN [medications |-> <<>>, raised |-> exc]
            ELSE LET rest == async_load_medications(Tail(stored))
                 IN [medications |-> <<from_dict_of(Head(stored))>> \o rest.medications,
                     raised |-> rest.raised]

\* coordinator.async_save_medications: the stored dictionary is replaced by the
\* records of the loaded medications
async_save_medications(medications) ==
    [i \in 1..Len(medications) |-> to_dict(medications[i])]

\* the stored record of a second medication
OtherRecord ==
    to_dict(MedicationEntry("med_2", <<"medication_", "med_2">>,
                            MedicationData(FREQUENCY_DAILY, <<T0900>>, NoBound, NoBound),
                            <<DoseRecord(Hours(9), TRUE)>>, STATE_NOT_DUE, None))

\* That record corrupted: a key missing, or a timestamp no longer parseable
CorruptRecords ==
    {[key \in DOMAIN OtherRecord \ {"id"} |-> OtherRecord[key]],
     [OtherRecord EXCEPT !.data.start_date = UnparseableText],
     [OtherRecord EXCEPT !.dose_history[1].timestamp = UnparseableText]}

\* C36: when one stored record fails to deserialise, loading fails for that
\* record only: this entry, stored after the corrupt record, is loaded into the
\* coordinator, and its record is still in the store after the next save.
C36_CorruptRecordOnlyLost ==
    \A corrupt \in CorruptRecords :
        LET medications == async_load_medications(<<corrupt, to_dict(Entry)>>).medications
            saved == async_save_medications(medications)
        IN /\ \E i \in 1..Len(medications) : medications[i].id = id
           /\ \E i \in 1..Len(saved) : saved[i] = to_dict(Entry)

\* the same store read with the corrupt record last: the entry is loaded and saved
StoredBeforeCorruptKept ==
    \A corrupt \in CorruptRecords :
        LET medications == async_load_medications(<<to_dict(Entry), corrupt>>).medications
            saved == async_save_medications(medications)
        IN /\ Len(medications) = 1
           /\ medications[1] = from_dict_of(to_dict(Entry))
           /\ saved = <<to_dict(Entry)>>

\* C37: immediately after every evaluation at a time inside the active range
\* of a daily, weekly or monthly rule, status and cached next-due agree: the
\* next-due is not none; DUE or OVERDUE implies now >= next-due; TAKEN or NOT_DUE
\* implies now < next-due; and for weekly and monthly rules SKIPPED implies
\* now < next-due with the most recent record a skip.
C37_StatusAgreesWithNextDue ==
    (/\ Evaluated
     /\ InRange
     /\ data.frequency # FREQUENCY_AS_NEEDED)
        => /\ next_due # None
           /\ current_status \in {STATE_DUE, STATE_OVERDUE} => now >= next_due
           /\ current_status \in {STATE_TAKEN, STATE_NOT_DUE} => now < next_due
           /\ (/\ current_status = STATE_SKIPPED
               /\ data.frequency \in {FREQUENCY_WEEKLY, FREQUENCY_MONTHLY})
                 => /\ now < next_due
                    /\ dose_history # <<>>
                    /\ ~LastRecord.taken

\* a weekly or monthly entry evaluated as SKIPPED before its next-due, the
\* last record a skip
C37_Witness ==
    /\ last_op = "update_status"
    /\ raised = "none"
    /\ InRange
    /\ data.frequency \in {FREQUENCY_WEEKLY, FREQUENCY_MONTHLY}
    /\ current_status = STATE_SKIPPED
    /\ next_due # None
    /\ now < next_due
    /\ ~LastRecord.taken

\* C38: for a daily, weekly or monthly rule with non-empty times,
\* record_dose_taken at a time inside the active range leaves the status TAKEN
\* and a cached next-due strictly after that time, whatever the history and the
\* cached next-due were before the call.
C38_TakenAndNextDueAhead ==
    [][(/\ last_op' = "record_dose_taken"
        /\ Len(dose_history') = Len(dose_history) + 1
        /\ data.frequency # FREQUENCY_AS_NEEDED
        /\ data.times # <<>>
        /\ InRange)
          => /\ raised' = "none"
             /\ current_status' = STATE_TAKEN
             /\ next_due' # None
             /\ next_due' > now]_vars

\* a dose taken on a day whose earlier record is a skip: TAKEN, next-due ahead
C38_Witness ==
    /\ last_op = "record_dose_taken"
    /\ raised = "none"
    /\ InRange
    /\ data.frequency = FREQUENCY_DAILY
    /\ Len(dose_history) = 2
    /\ ~dose_history[1].taken
    /\ LocalDate(dose_history[1].timestamp) = Today
    /\ current_status = STATE_TAKEN
    /\ next_due > now

\* an evaluation has left the entry OVERDUE and no reset or reload came since
OverdueInForce == current_status = STATE_OVERDUE /\ next_due # None

\* C39, as stated: the schedule never advances by itself: once an evaluation
\* has yielded OVERDUE, every evaluation at a later time yields OVERDUE with the
\* same next-due, until an occurrence is recorded, reset_schedule is called or
\* the entry is reloaded.
C39_OverdueAtEveryLaterEvaluation ==
    [][(OverdueInForce /\ last_op' = "update_status")
          => /\ current_status' = STATE_OVERDUE
             /\ next_due' = next_due]_vars

\* C39, amended: once an evaluation has yielded OVERDUE, every later evaluation
\* keeps the same next-due, and yields OVERDUE as long as its time is inside
\* the active range, on the same day and on every later calendar day, until an
\* occurrence is recorded, reset_schedule is called or the entry is reloaded;
\* past the end of the range it yields NOT_DUE.
C39_OverdueAtLaterEvaluationInRange ==
    [][(OverdueInForce /\ last_op' = "update_status")
          => /\ next_due' = next_due
             /\ raised' = "none"
             /\ current_status' = IF InRange THEN STATE_OVERDUE ELSE STATE_NOT_DUE]_vars

\* an entry evaluated as OVERDUE on a calendar day after that of its next-due
C39_Witness ==
    /\ last_op = "update_status"
    /\ raised = "none"
    /\ InRange
    /\ OverdueInForce
    /\ Today > LocalDate(next_due)

====
